---- MODULE Spec2Model ----
(***************************************************************************)
(* The access/refresh token lifecycle of the zpredict browser client:      *)
(* website/static/js/auth-utils.js (refreshAccessToken, authenticatedFetch, *)
(* isAuthenticated, isTokenExpired, logout), the AuthManager class of      *)
(* UI/static/js/app.js (checkAuthStatus, isTokenExpired,                   *)
(* refreshAccessToken, login, logout), and the pages' own session code:    *)
(* checkAuthStatus and FeedbackManagement.logout of app.js,                *)
(* StudentProfile.checkAuth of website/static/js/studentprofile.js.        *)
(*                                                                         *)
(* A process is one invocation of an operation from page code.  A step is  *)
(* one event-loop task: the synchronous code from a resumption (a settled  *)
(* fetch or body read) up to the next await of a network promise.  An      *)
(* await of a promise that the same task settles (await refreshAccessToken *)
(* () returning) continues in the same task's microtask checkpoint, so it  *)
(* belongs to the same step.                                               *)
(***************************************************************************)
EXTENDS Naturals, Sequences, FiniteSets, TLC

\* ------------------------------------------------------------------ bounds

\* Number of page-code invocations that may exist side by side.
NumProcs == 2
\* Number of distinct access tokens the backend may issue.
NumAccess == 2

Procs == 1..NumProcs

\* --------------------------------------------------------------- JS values

Null == [type |-> "null"]
Undefined == [type |-> "undefined"]
Str(s) == [type |-> "string", val |-> s]

\* String(v) of a JS value, as localStorage.setItem and template literals apply it.
JsString(v) == IF v.type = "string" THEN v.val ELSE v.type

\* ToBoolean of a JS value that is null, undefined or a string.
Truthy(v) == v.type = "string" /\ v.val # ""

\* `Bearer ${token}`
Bearer(v) == "Bearer " \o JsString(v)

\* ------------------------------------------------------------ the backend

AccessNames == <<"a1", "a2", "a3", "a4">>
AccessTokens == {AccessNames[i] : i \in 1..NumAccess}
RefreshTokens == {"r1", "r2"}

\* The exp claim (Unix seconds) the backend put into the i-th access token.
ExpOf(s) == CHOOSE i \in 1..NumAccess : AccessNames[i] = s

\* Response statuses the backend answers with.
Statuses == {200, 204, 401, 500}

\* What a pending fetch() settles to: a Response, or a rejection (network error).
FetchOutcomes == [kind : {"response"}, status : Statuses] \cup {[kind |-> "reject"]}

\* A field of a JSON body: a token string, or the field is missing.
AccessFields == {Str(a) : a \in AccessTokens} \cup {Undefined}
RefreshFields == {Str(r) : r \in RefreshTokens} \cup {Undefined}

\* What response.json() of the refresh endpoint settles to.
RefreshBodies == [kind : {"json"}, access : AccessFields] \cup {[kind |-> "reject"]}
\* What response.json() of the login endpoint settles to.
LoginBodies == [kind : {"json"}, access : AccessFields, refresh : RefreshFields]
                 \cup {[kind |-> "reject"]}

\* Date.now() readings (milliseconds).
NowValues == {999, 1000, 1001, 2000}

\* response.ok
Ok(status) == status >= 200 /\ status <= 299

\* ------------------------------------------------------------------ state

VARIABLES
    store,      \* localStorage: access_token and refresh_token (Null when absent)
    pc,         \* pc[p]: where invocation p is suspended ("idle", "done" or an await)
    op,         \* op[p]: the operation page code invoked
    reqOpts,    \* reqOpts[p]: the requestOptions object of authenticatedFetch
    sent,       \* sent[p]: the requests invocation p has issued, in order
    recv,       \* recv[p]: what the invocation's network promises settled to, in order
                \* (for a synchronous query: the clock reading of the call)
    entry,      \* entry[p]: the store as it was when the invocation began
    result      \* result[p]: what the invocation returned or threw

vars == <<store, pc, op, reqOpts, sent, recv, entry, result>>

Keys == {"access_token", "refresh_token"}

\* A JS object with no own keys.
EmptyObject == [k \in {} |-> ""]
NoResult == [kind |-> "none"]
Returned(v) == [kind |-> "return", val |-> v]
Threw(msg) == [kind |-> "throw", err |-> msg]

EmptyStore == [k \in Keys |-> Null]

\* What a key of the store can hold besides nothing: a token the backend
\* issued, or the text "undefined" that setItem makes of a field missing from
\* a body.
StoredAccess == {Null, Str("undefined")} \cup {Str(t) : t \in AccessTokens}
StoredRefresh == {Null, Str("undefined")} \cup {Str(t) : t \in RefreshTokens}

\* localStorage outlives the page, so an invocation finds what earlier pages
\* left: a pair written by a login (app.js 1016-1017), nothing after a logout
\* (app.js 1059-1060), a refresh token alone after FeedbackManagement.logout
\* (app.js 557-558), an access token alone after a refresh that settled once
\* a logout had run (auth-utils.js 28).
StoreStates ==
    {st \in [Keys -> StoredAccess \cup StoredRefresh] :
        /\ st["access_token"] \in StoredAccess
        /\ st["refresh_token"] \in StoredRefresh}

Init ==
    /\ store \in StoreStates
    /\ pc = [p \in Procs |-> "idle"]
    /\ op = [p \in Procs |-> "none"]
    /\ reqOpts = [p \in Procs |-> EmptyObject]
    /\ sent = [p \in Procs |-> <<>>]
    /\ recv = [p \in Procs |-> <<>>]
    /\ entry = [p \in Procs |-> EmptyStore]
    /\ result = [p \in Procs |-> NoResult]

\* ------------------------------------------------------------ localStorage

\* localStorage.getItem(k)
GetItem(st, k) == st[k]
\* localStorage.setItem(k, v): the value is stored as a string
SetItem(st, k, v) == [st EXCEPT ![k] = Str(JsString(v))]
\* localStorage.removeItem(k)
RemoveItem(st, k) == [st EXCEPT ![k] = Null]

\* ---------------------------------------------------------------- requests

\* fetch(url, opts): the request that goes out.
Request(url, opts) == [url |-> url, opts |-> opts]
\* The Response a fetch resolved with: its status, and which request it answers.
Response(p, status) == [status |-> status, of |-> Len(sent[p])]

Issue(p, req) == sent' = [sent EXCEPT ![p] = Append(@, req)]

\* A network promise of invocation p settled to o.
Settle(p, o) == recv' = [recv EXCEPT ![p] = Append(@, o)]

\* Page code invokes operation name.
Invoke(p, name) ==
    /\ pc[p] = "idle"
    /\ op' = [op EXCEPT ![p] = name]
    /\ entry' = [entry EXCEPT ![p] = store]
    /\ UNCHANGED recv

Finish(p, res) ==
    /\ pc' = [pc EXCEPT ![p] = "done"]
    /\ result' = [result EXCEPT ![p] = res]

\* { ...a, ...b }: object spread, the keys of b win
Spread(a, b) == [k \in DOMAIN a \cup DOMAIN b |-> IF k \in DOMAIN b THEN b[k] ELSE a[k]]

\* The options objects page code passes to authenticatedFetch(url, options).
CallerOptions ==
    { EmptyObject,
      ("method" :> "POST") @@ ("body" :> "q"),
      ("method" :> "PUT") @@
          ("headers" :> (("Authorization" :> "Token caller") @@ ("X-Trace" :> "1"))) }

\* options.headers, as the spread sees it (spreading undefined adds nothing)
HeadersOf(options) ==
    IF "headers" \in DOMAIN options THEN options["headers"] ELSE EmptyObject

\* -------------------------------------------- auth-utils.js: refreshAccessToken

AuthFailedMsg == "Authentication failed - please login again"
NoTokenMsg == "No access token available"
NetworkErrorMsg == "TypeError: Failed to fetch"

\* Page functions that call authenticatedFetch and handle its outcome.
CallerOps == {"sendMessage", "ApiService.fetchApi"}

\* The invocations that run authenticatedFetch: page code calling it, or one
\* of the page functions.
FetchOps == {"authenticatedFetch"} \cup CallerOps

\* AfterRefresh with the retry re-sending the request as first built.
AfterRefresh_StaleHeader(p, b, st) ==
    IF op[p] \in FetchOps
    THEN IF b
         THEN /\ Issue(p, Request("resource", reqOpts[p]))
              /\ pc' = [pc EXCEPT ![p] = "af_fetch2"]
              /\ UNCHANGED <<reqOpts, result>>
         ELSE /\ Finish(p, Threw(AuthFailedMsg))
              /\ UNCHANGED <<reqOpts, sent>>
    ELSE /\ Finish(p, Returned(b))
         /\ UNCHANGED <<reqOpts, sent>>

\* AfterRefresh with the retry issued whatever refreshAccessToken returned.
AfterRefresh_RetryAnyway(p, b, st) ==
    IF op[p] \in FetchOps
    THEN LET newToken == GetItem(st, "access_token")
             headers == [reqOpts[p]["headers"] EXCEPT
                            !["Authorization"] = Bearer(newToken)]
             opts == [reqOpts[p] EXCEPT !["headers"] = headers]
         IN  /\ reqOpts' = [reqOpts EXCEPT ![p] = opts]
             /\ Issue(p, Request("resource", opts))
             /\ pc' = [pc EXCEPT ![p] = "af_fetch2"]
             /\ UNCHANGED result
    ELSE /\ Finish(p, Returned(b))
         /\ UNCHANGED <<reqOpts, sent>>

\* auth-utils.js 75-82, or the return to page code: what runs when
\* refreshAccessToken() has returned b, the store then being st.
\* AfterRefresh with the retry's headers built anew from the defaults.
AfterRefresh_FreshHeaders(p, b, st) ==
    IF op[p] \in FetchOps
    THEN IF b
         THEN LET newToken == GetItem(st, "access_token")
                  headers == ("Authorization" :> Bearer(newToken)) @@
                             ("Content-Type" :> "application/json")
                  opts == [reqOpts[p] EXCEPT !["headers"] = headers]
              IN  /\ reqOpts' = [reqOpts EXCEPT ![p] = opts]
                  /\ Issue(p, Request("resource", opts))
                  /\ pc' = [pc EXCEPT ![p] = "af_fetch2"]
                  /\ UNCHANGED result
         ELSE /\ Finish(p, Threw(AuthFailedMsg))
              /\ UNCHANGED <<reqOpts, sent>>
    ELSE /\ Finish(p, Returned(b))
         /\ UNCHANGED <<reqOpts, sent>>

AfterRefresh(p, b, st) ==
    IF op[p] \in FetchOps
    THEN IF b
         THEN LET newToken == GetItem(st, "access_token")
                  headers == [reqOpts[p]["headers"] EXCEPT
                                 !["Authorization"] = Bearer(newToken)]
                  opts == [reqOpts[p] EXCEPT !["headers"] = headers]
              IN  /\ reqOpts' = [reqOpts EXCEPT ![p] = opts]
                  /\ Issue(p, Request("resource", opts))
                  /\ pc' = [pc EXCEPT ![p] = "af_fetch2"]
                  /\ UNCHANGED result
         ELSE /\ Finish(p, Threw(AuthFailedMsg))
              /\ UNCHANGED <<reqOpts, sent>>
    ELSE /\ Finish(p, Returned(b))
         /\ UNCHANGED <<reqOpts, sent>>

\* RefreshEnter with a missing refresh token treated as a logout.
RefreshEnter_ClearsWhenMissing(p) ==
    LET refreshToken == GetItem(store, "refresh_token") IN
    IF ~Truthy(refreshToken)
    THEN LET st == RemoveItem(RemoveItem(store, "access_token"), "refresh_token")
         IN  /\ store' = st
             /\ AfterRefresh(p, FALSE, st)
    ELSE /\ Issue(p, Request("refresh",
                      [method |-> "POST",
                       headers |-> ("Content-Type" :> "application/json"),
                       body |-> [refresh |-> refreshToken]]))
         /\ pc' = [pc EXCEPT ![p] = "rt_fetch"]
         /\ UNCHANGED <<store, reqOpts, result>>

\* auth-utils.js 9-24: refreshAccessToken() up to its await of fetch.
RefreshEnter(p) ==
    LET refreshToken == GetItem(store, "refresh_token") IN
    IF ~Truthy(refreshToken)
    THEN /\ AfterRefresh(p, FALSE, store)
         /\ UNCHANGED store
    ELSE /\ Issue(p, Request("refresh",
                      [method |-> "POST",
                       headers |-> ("Content-Type" :> "application/json"),
                       body |-> [refresh |-> refreshToken]]))
         /\ pc' = [pc EXCEPT ![p] = "rt_fetch"]
         /\ UNCHANGED <<store, reqOpts, result>>

\* Page code calls refreshAccessToken().
RT_Call(p) ==
    /\ Invoke(p, "refreshAccessToken")
    /\ RefreshEnter(p)

\* RT_FetchSettled with a non-2xx answer removing the access token only.
RT_FetchSettled_KeepsRefreshToken(p) ==
    /\ pc[p] = "rt_fetch"
    /\ \E o \in FetchOutcomes :
        /\ Settle(p, o)
        /\ IF o.kind = "reject"
           THEN /\ AfterRefresh(p, FALSE, store)
                /\ UNCHANGED store
           ELSE IF Ok(o.status)
           THEN /\ pc' = [pc EXCEPT ![p] = "rt_json"]
                /\ UNCHANGED <<store, reqOpts, sent, result>>
           ELSE LET st == RemoveItem(store, "access_token")
                IN  /\ store' = st
                    /\ AfterRefresh(p, FALSE, st)
    /\ UNCHANGED <<op, entry>>

\* RT_FetchSettled with a rejected fetch clearing the tokens like a non-2xx
\* answer (as NavbarManager.tryRefreshToken does).
RT_FetchSettled_ClearsOnThrow(p) ==
    /\ pc[p] = "rt_fetch"
    /\ \E o \in FetchOutcomes :
        /\ Settle(p, o)
        /\ IF o.kind = "response" /\ Ok(o.status)
           THEN /\ pc' = [pc EXCEPT ![p] = "rt_json"]
                /\ UNCHANGED <<store, reqOpts, sent, result>>
           ELSE LET st == RemoveItem(RemoveItem(store, "access_token"), "refresh_token")
                IN  /\ store' = st
                    /\ AfterRefresh(p, FALSE, st)
    /\ UNCHANGED <<op, entry>>

\* auth-utils.js 26-39: the refresh fetch settled.
RT_FetchSettled(p) ==
    /\ pc[p] = "rt_fetch"
    /\ \E o \in FetchOutcomes :
        /\ Settle(p, o)
        /\ IF o.kind = "reject"
           THEN /\ AfterRefresh(p, FALSE, store)
                /\ UNCHANGED store
           ELSE IF Ok(o.status)
           THEN /\ pc' = [pc EXCEPT ![p] = "rt_json"]
                /\ UNCHANGED <<store, reqOpts, sent, result>>
           ELSE LET st == RemoveItem(RemoveItem(store, "access_token"), "refresh_token")
                IN  /\ store' = st
                    /\ AfterRefresh(p, FALSE, st)
    /\ UNCHANGED <<op, entry>>

\* RT_JsonSettled storing the body's refresh field too, as a login does.
RT_JsonSettled_StoresRefreshField(p) ==
    /\ pc[p] = "rt_json"
    /\ \E b \in RefreshBodies :
        /\ Settle(p, b)
        /\ IF b.kind = "reject"
           THEN /\ AfterRefresh(p, FALSE, store)
                /\ UNCHANGED store
           ELSE LET st == SetItem(SetItem(store, "access_token", b.access),
                                  "refresh_token", Undefined)
                IN  /\ store' = st
                    /\ AfterRefresh(p, TRUE, st)
    /\ UNCHANGED <<op, entry>>

\* RT_JsonSettled with the write skipped when the stored access token is no
\* longer the one the call began with (another refresh has written since).
RT_JsonSettled_KeepsNewerToken(p) ==
    /\ pc[p] = "rt_json"
    /\ \E b \in RefreshBodies :
        /\ Settle(p, b)
        /\ IF b.kind = "reject"
           THEN /\ AfterRefresh(p, FALSE, store)
                /\ UNCHANGED store
           ELSE LET st == IF store["access_token"] = entry[p]["access_token"]
                          THEN SetItem(store, "access_token", b.access)
                          ELSE store
                IN  /\ store' = st
                    /\ AfterRefresh(p, TRUE, st)
    /\ UNCHANGED <<op, entry>>

\* auth-utils.js 27-29, 36-38: response.json() settled.
RT_JsonSettled(p) ==
    /\ pc[p] = "rt_json"
    /\ \E b \in RefreshBodies :
        /\ Settle(p, b)
        /\ IF b.kind = "reject"
           THEN /\ AfterRefresh(p, FALSE, store)
                /\ UNCHANGED store
           ELSE LET st == SetItem(store, "access_token", b.access)
                IN  /\ store' = st
                    /\ AfterRefresh(p, TRUE, st)
    /\ UNCHANGED <<op, entry>>

\* -------------------------------------------- auth-utils.js: authenticatedFetch

\* The default headers of a request that carries token.
DefaultHeaders(token) ==
    ("Authorization" :> Bearer(token)) @@ ("Content-Type" :> "application/json")

\* RequestHeaders with the defaults spread last.
RequestHeaders_DefaultsLast(token, options) ==
    Spread(HeadersOf(options), DefaultHeaders(token))

\* auth-utils.js 56-60: { Authorization, Content-Type, ...options.headers }
RequestHeaders(token, options) ==
    Spread(DefaultHeaders(token), HeadersOf(options))

\* AF_Call without the check for a stored access token.
AF_Call_NoGuard(p) ==
    /\ Invoke(p, "authenticatedFetch")
    /\ \E options \in CallerOptions :
        LET token == GetItem(store, "access_token")
            headers == Spread(("Authorization" :> Bearer(token)) @@
                              ("Content-Type" :> "application/json"),
                              HeadersOf(options))
            requestOptions == Spread(options, ("headers" :> headers))
        IN  /\ reqOpts' = [reqOpts EXCEPT ![p] = requestOptions]
            /\ Issue(p, Request("resource", requestOptions))
            /\ pc' = [pc EXCEPT ![p] = "af_fetch1"]
            /\ UNCHANGED result
    /\ UNCHANGED store

\* auth-utils.js 48-68: authenticatedFetch(url, options) up to its first await.
AF_Enter(p, options) ==
    /\ LET token == GetItem(store, "access_token")
           requestOptions == Spread(options, ("headers" :> RequestHeaders(token, options)))
       IN  IF ~Truthy(token)
           THEN /\ Finish(p, Threw(NoTokenMsg))
                /\ UNCHANGED <<reqOpts, sent>>
           ELSE /\ reqOpts' = [reqOpts EXCEPT ![p] = requestOptions]
                /\ Issue(p, Request("resource", requestOptions))
                /\ pc' = [pc EXCEPT ![p] = "af_fetch1"]
                /\ UNCHANGED result
    /\ UNCHANGED store

\* Page code calls authenticatedFetch(url, options).
AF_CallWith(p, options) ==
    /\ Invoke(p, "authenticatedFetch")
    /\ AF_Enter(p, options)

\* Page code calls authenticatedFetch with one of its options objects.
AF_Call(p) == \E options \in CallerOptions : AF_CallWith(p, options)

\* AF_Fetch1Settled with the refresh attempted on every non-2xx status.
AF_Fetch1Settled_RefreshOnError(p) ==
    /\ pc[p] = "af_fetch1"
    /\ \E o \in FetchOutcomes :
        /\ Settle(p, o)
        /\ IF o.kind = "reject"
           THEN /\ Finish(p, Threw(NetworkErrorMsg))
                /\ UNCHANGED <<store, reqOpts, sent>>
           ELSE IF ~Ok(o.status)
           THEN RefreshEnter(p)
           ELSE /\ Finish(p, Returned(Response(p, o.status)))
                /\ UNCHANGED <<store, reqOpts, sent>>
    /\ UNCHANGED <<op, entry>>

\* auth-utils.js 68-89: the first fetch settled.
AF_Fetch1Settled(p) ==
    /\ pc[p] = "af_fetch1"
    /\ \E o \in FetchOutcomes :
        /\ Settle(p, o)
        /\ IF o.kind = "reject"
           THEN /\ Finish(p, Threw(NetworkErrorMsg))
                /\ UNCHANGED <<store, reqOpts, sent>>
           ELSE IF o.status = 401
           THEN RefreshEnter(p)
           ELSE /\ Finish(p, Returned(Response(p, o.status)))
                /\ UNCHANGED <<store, reqOpts, sent>>
    /\ UNCHANGED <<op, entry>>

\* AF_Fetch2Settled with a 401 on the retry handled like the first one.
AF_Fetch2Settled_RetryAgain(p) ==
    /\ pc[p] = "af_fetch2"
    /\ \E o \in FetchOutcomes :
        /\ Settle(p, o)
        /\ IF o.kind = "reject"
           THEN /\ Finish(p, Threw(NetworkErrorMsg))
                /\ UNCHANGED <<store, reqOpts, sent>>
           ELSE IF o.status = 401
           THEN RefreshEnter(p)
           ELSE /\ Finish(p, Returned(Response(p, o.status)))
                /\ UNCHANGED <<store, reqOpts, sent>>
    /\ UNCHANGED <<op, entry>>

\* auth-utils.js 79, 86-89: the retried fetch settled.
AF_Fetch2Settled(p) ==
    /\ pc[p] = "af_fetch2"
    /\ \E o \in FetchOutcomes :
        /\ Settle(p, o)
        /\ IF o.kind = "reject"
           THEN Finish(p, Threw(NetworkErrorMsg))
           ELSE Finish(p, Returned(Response(p, o.status)))
    /\ UNCHANGED <<store, op, entry, reqOpts, sent>>

\* ------------------------------------------------------ app.js: AuthManager

\* Stored strings that are not tokens of the backend: no '.' in it; a middle
\* segment that is not base64; a middle segment that is base64 of text that
\* is not JSON; one that is base64 of "null"; one that is base64 of "{}".
OpaqueToken == "opaque"
BadBase64Token == "h.%%%.s"
NotJsonToken == "h.bm90anNvbg.s"
NullClaimsToken == "h.bnVsbA.s"
NoExpToken == "h.e30.s"
MalformedTokens == {OpaqueToken, BadBase64Token, NotJsonToken, NullClaimsToken, NoExpToken}

\* JSON.parse(atob(token.split('.')[1])): the claims object of a token the
\* backend issued; null or {} where the middle segment encodes that; for any
\* other string the expression throws (split('.')[1] is undefined and
\* atob("undefined") throws, atob of a non-base64 segment throws, JSON.parse
\* of text that is not JSON throws).
DecodePayload(s) ==
    IF s \in AccessTokens
    THEN [ok |-> TRUE, val |-> [type |-> "object", hasExp |-> TRUE, exp |-> ExpOf(s)]]
    ELSE IF s = NoExpToken
    THEN [ok |-> TRUE, val |-> [type |-> "object", hasExp |-> FALSE, exp |-> 0]]
    ELSE IF s = NullClaimsToken
    THEN [ok |-> TRUE, val |-> Null]
    ELSE [ok |-> FALSE]

\* AM_IsTokenExpired without the try block's catch: a token that does not
\* decode counts as one that has not expired.
AM_IsTokenExpired_NoCatch(st, now) ==
    LET token == GetItem(st, "access_token") IN
    IF ~Truthy(token) THEN TRUE
    ELSE LET payload == DecodePayload(token.val) IN
         IF ~payload.ok THEN FALSE
         ELSE IF payload.val = Null THEN FALSE
         ELSE IF ~payload.val.hasExp THEN FALSE
         ELSE payload.val.exp * 1000 < now

\* app.js 965-974: AuthManager.isTokenExpired(), Date.now() reading now.  A
\* thrown decode, and the TypeError of reading exp of null, end in the catch
\* block; a claims object without exp makes the comparison NaN < now, false.
AM_IsTokenExpired(st, now) ==
    LET token == GetItem(st, "access_token") IN
    IF ~Truthy(token) THEN TRUE
    ELSE LET payload == DecodePayload(token.val) IN
         IF ~payload.ok THEN TRUE
         ELSE IF payload.val = Null THEN TRUE
         ELSE IF ~payload.val.hasExp THEN FALSE
         ELSE payload.val.exp * 1000 < now

\* app.js 1058-1061: AuthManager.clearTokens()
AM_ClearTokens(st) == RemoveItem(RemoveItem(st, "access_token"), "refresh_token")

\* The headers every AuthManager POST carries.
AM_JsonHeaders == ("Content-Type" :> "application/json") @@ ("X-CSRFToken" :> "csrf")

\* AM_AfterRefresh with needsRefresh set whenever a refresh was attempted.
AM_AfterRefresh_AlwaysNeedsRefresh(p, b) ==
    Finish(p, Returned([isAuthenticated |-> b, needsRefresh |-> TRUE]))

\* app.js 943-947: checkAuthStatus's result once refreshAccessToken returned b
AM_AfterRefresh(p, b) ==
    Finish(p, Returned([isAuthenticated |-> b, needsRefresh |-> ~b]))

\* app.js 935-952 and 977-986: checkAuthStatus() up to the await of the
\* refresh fetch.
AM_CheckAuthStatusAt(p, now) ==
    /\ Invoke(p, "AuthManager.checkAuthStatus")
    /\ LET token == GetItem(store, "access_token")
           refreshToken == GetItem(store, "refresh_token")
       IN  IF Truthy(token) /\ ~AM_IsTokenExpired(store, now)
           THEN /\ Finish(p, Returned([isAuthenticated |-> TRUE, needsRefresh |-> FALSE]))
                /\ UNCHANGED sent
           ELSE IF Truthy(refreshToken)
           THEN /\ Issue(p, Request("refresh",
                             [method |-> "POST", headers |-> AM_JsonHeaders,
                              body |-> [refresh |-> refreshToken]]))
                /\ pc' = [pc EXCEPT ![p] = "amr_fetch"]
                /\ UNCHANGED result
           ELSE /\ Finish(p, Returned([isAuthenticated |-> FALSE, needsRefresh |-> FALSE]))
                /\ UNCHANGED sent
    /\ UNCHANGED <<store, reqOpts>>

\* Page code calls AuthManager.checkAuthStatus(); Date.now() reads some time.
AM_CheckAuthStatus(p) == \E now \in NowValues : AM_CheckAuthStatusAt(p, now)

\* app.js 988-999: AuthManager.refreshAccessToken, the refresh fetch settled.
AM_RefreshFetchSettled(p) ==
    /\ pc[p] = "amr_fetch"
    /\ \E o \in FetchOutcomes :
        /\ Settle(p, o)
        /\ IF o.kind = "reject"
           THEN AM_AfterRefresh(p, FALSE) /\ UNCHANGED store
           ELSE IF Ok(o.status)
           THEN /\ pc' = [pc EXCEPT ![p] = "amr_json"]
                /\ UNCHANGED <<store, result>>
           ELSE /\ store' = AM_ClearTokens(store)
                /\ AM_AfterRefresh(p, FALSE)
    /\ UNCHANGED <<op, entry, reqOpts, sent>>

\* app.js 989-991, 996-999: res.json() settled.
AM_RefreshJsonSettled(p) ==
    /\ pc[p] = "amr_json"
    /\ \E b \in RefreshBodies :
        /\ Settle(p, b)
        /\ IF b.kind = "reject"
           THEN AM_AfterRefresh(p, FALSE) /\ UNCHANGED store
           ELSE /\ store' = SetItem(store, "access_token", b.access)
                /\ AM_AfterRefresh(p, TRUE)
    /\ UNCHANGED <<op, entry, reqOpts, sent>>

ConnectionErrorResult ==
    [success |-> FALSE,
     message |-> "Connection error. Please check your connection and try again."]

\* Error payloads of the login endpoint: {detail}, {message}, or neither.
LoginErrorBodies ==
    [kind : {"json"}, detail : {Str("bad credentials"), Undefined},
                      message : {Str("locked"), Undefined}]
        \cup {[kind |-> "reject"]}

\* error.detail || error.message || 'Invalid credentials'
LoginErrorText(b) ==
    IF Truthy(b.detail) THEN b.detail.val
    ELSE IF Truthy(b.message) THEN b.message.val
    ELSE "Invalid credentials"

\* app.js 1003-1012: login(email, password) up to the await of fetch.
AM_Login(p) ==
    /\ Invoke(p, "AuthManager.login")
    /\ Issue(p, Request("login",
                 [method |-> "POST", headers |-> AM_JsonHeaders,
                  body |-> [email |-> "a@b.com", password |-> "pw"]]))
    /\ pc' = [pc EXCEPT ![p] = "li_fetch"]
    /\ UNCHANGED <<store, reqOpts, result>>

\* app.js 1014-1032: the login fetch settled.
AM_LoginFetchSettled(p) ==
    /\ pc[p] = "li_fetch"
    /\ \E o \in FetchOutcomes :
        /\ Settle(p, o)
        /\ IF o.kind = "reject"
           THEN Finish(p, Returned(ConnectionErrorResult))
           ELSE /\ pc' = [pc EXCEPT ![p] = IF Ok(o.status) THEN "li_json" ELSE "li_errjson"]
                /\ UNCHANGED result
    /\ UNCHANGED <<store, op, entry, reqOpts, sent>>

\* AM_LoginJsonSettled with the refresh token of the body left unwritten.
AM_LoginJsonSettled_AccessOnly(p) ==
    /\ pc[p] = "li_json"
    /\ \E b \in LoginBodies :
        /\ Settle(p, b)
        /\ IF b.kind = "reject"
           THEN Finish(p, Returned(ConnectionErrorResult)) /\ UNCHANGED store
           ELSE /\ store' = SetItem(store, "access_token", b.access)
                /\ Finish(p, Returned([success |-> TRUE,
                                       message |-> "Login successful! Welcome back."]))
    /\ UNCHANGED <<op, entry, reqOpts, sent>>

\* app.js 1015-1018, 1026-1032: res.json() of a successful login settled.
AM_LoginJsonSettled(p) ==
    /\ pc[p] = "li_json"
    /\ \E b \in LoginBodies :
        /\ Settle(p, b)
        /\ IF b.kind = "reject"
           THEN Finish(p, Returned(ConnectionErrorResult)) /\ UNCHANGED store
           ELSE /\ store' = SetItem(SetItem(store, "access_token", b.access),
                                    "refresh_token", b.refresh)
                /\ Finish(p, Returned([success |-> TRUE,
                                       message |-> "Login successful! Welcome back."]))
    /\ UNCHANGED <<op, entry, reqOpts, sent>>

\* AM_LoginErrorJsonSettled with a rejected login ending the session, as the
\* page's checkAuthStatus() does on a non-2xx answer.
AM_LoginErrorJsonSettled_ClearsTokens(p) ==
    /\ pc[p] = "li_errjson"
    /\ \E b \in LoginErrorBodies :
        /\ Settle(p, b)
        /\ store' = AM_ClearTokens(store)
        /\ IF b.kind = "reject"
           THEN Finish(p, Returned(ConnectionErrorResult))
           ELSE Finish(p, Returned([success |-> FALSE,
                                    message |-> "Login failed: " \o LoginErrorText(b)]))
    /\ UNCHANGED <<op, entry, reqOpts, sent>>

\* app.js 1019-1032: res.json() of a rejected login settled.
AM_LoginErrorJsonSettled(p) ==
    /\ pc[p] = "li_errjson"
    /\ \E b \in LoginErrorBodies :
        /\ Settle(p, b)
        /\ IF b.kind = "reject"
           THEN Finish(p, Returned(ConnectionErrorResult))
           ELSE Finish(p, Returned([success |-> FALSE,
                                    message |-> "Login failed: " \o LoginErrorText(b)]))
    /\ UNCHANGED <<store, op, entry, reqOpts, sent>>

LogoutResult == [success |-> TRUE, message |-> "Logged out successfully"]

\* app.js 1036-1055: logout() up to the await of fetch; with no token the
\* try block ends at once and the finally block runs.
AM_Logout(p) ==
    /\ Invoke(p, "AuthManager.logout")
    /\ LET token == GetItem(store, "access_token") IN
       IF Truthy(token)
       THEN /\ Issue(p, Request("logout",
                         [method |-> "POST",
                          headers |-> ("Authorization" :> Bearer(token)) @@
                                      ("X-CSRFToken" :> "csrf")]))
            /\ pc' = [pc EXCEPT ![p] = "lo_fetch"]
            /\ UNCHANGED <<store, result>>
       ELSE /\ store' = AM_ClearTokens(store)
            /\ Finish(p, Returned(LogoutResult))
            /\ UNCHANGED sent
    /\ UNCHANGED reqOpts

\* app.js 1049-1054: the logout fetch settled (resolved with any status, or
\* rejected and caught); the finally block clears the tokens and returns.
AM_LogoutFetchSettled(p) ==
    /\ pc[p] = "lo_fetch"
    /\ \E o \in FetchOutcomes :
        /\ Settle(p, o)
        /\ store' = AM_ClearTokens(store)
        /\ Finish(p, Returned(LogoutResult))
    /\ UNCHANGED <<op, entry, reqOpts, sent>>

\* ------------------------------------------------- auth-utils.js: queries

\* auth-utils.js 115-134: getCurrentUserInfo(); null without a token and when
\* the decode, or reading a field of a null payload, throws.
GetCurrentUserInfo(st) ==
    LET token == GetItem(st, "access_token") IN
    IF ~Truthy(token) THEN Null
    ELSE LET payload == DecodePayload(token.val) IN
         IF ~payload.ok THEN Null
         ELSE IF payload.val = Null THEN Null
         ELSE [type |-> "object", hasExp |-> payload.val.hasExp, exp |-> payload.val.exp]

\* auth-utils.js 140-149: isTokenExpired(), Date.now() reading now
IsTokenExpired(st, now) ==
    LET userInfo == GetCurrentUserInfo(st) IN
    IF userInfo = Null THEN TRUE
    ELSE IF ~userInfo.hasExp \/ userInfo.exp = 0 THEN TRUE
    ELSE (now \div 1000) >= userInfo.exp

\* IsAuthenticated looking at the access token alone, as the pages' own
\* checks do.
IsAuthenticated_AccessOnly(st) ==
    Truthy(GetItem(st, "access_token"))

\* auth-utils.js 96-100: isAuthenticated()
IsAuthenticated(st) ==
    LET accessToken == GetItem(st, "access_token")
        refreshToken == GetItem(st, "refresh_token")
    IN  Truthy(accessToken) /\ Truthy(refreshToken)

\* Page code invokes a synchronous query while the clock reads now.
InvokeAt(p, name, now) ==
    /\ pc[p] = "idle"
    /\ op' = [op EXCEPT ![p] = name]
    /\ entry' = [entry EXCEPT ![p] = store]
    /\ recv' = [recv EXCEPT ![p] = <<[kind |-> "clock", now |-> now]>>]

IsTokenExpired_Call(p) ==
    \E now \in NowValues :
        /\ InvokeAt(p, "isTokenExpired", now)
        /\ Finish(p, Returned(IsTokenExpired(store, now)))
        /\ UNCHANGED <<store, reqOpts, sent>>

AM_IsTokenExpired_Call(p) ==
    \E now \in NowValues :
        /\ InvokeAt(p, "AuthManager.isTokenExpired", now)
        /\ Finish(p, Returned(AM_IsTokenExpired(store, now)))
        /\ UNCHANGED <<store, reqOpts, sent>>

IsAuthenticated_Call(p) ==
    \E now \in NowValues :
        /\ InvokeAt(p, "isAuthenticated", now)
        /\ Finish(p, Returned(IsAuthenticated(store)))
        /\ UNCHANGED <<store, reqOpts, sent>>

\* ------------------------------------------- app.js: the page's own functions

\* The headers of the pages' status requests.
BearerHeaders(token) ==
    ("Authorization" :> Bearer(token)) @@ ("Content-Type" :> "application/json")

\* app.js 691-710, 728-730: checkAuthStatus() up to its await of fetch; it
\* returns at once when the page lacks one of its elements.
CheckAuthStatus_Call(p) ==
    /\ Invoke(p, "checkAuthStatus")
    /\ \E elements \in BOOLEAN :
        LET token == GetItem(store, "access_token") IN
        IF elements /\ Truthy(token)
        THEN /\ Issue(p, Request("status", [method |-> "GET", headers |-> BearerHeaders(token)]))
             /\ pc' = [pc EXCEPT ![p] = "cas_fetch"]
             /\ UNCHANGED result
        ELSE /\ Finish(p, Returned(Undefined))
             /\ UNCHANGED sent
    /\ UNCHANGED <<store, reqOpts>>

\* app.js 712-727: the status fetch settled; anything but a 2xx answer ends
\* the session.
CheckAuthStatus_FetchSettled(p) ==
    /\ pc[p] = "cas_fetch"
    /\ \E o \in FetchOutcomes :
        /\ Settle(p, o)
        /\ IF o.kind = "response" /\ Ok(o.status)
           THEN UNCHANGED store
           ELSE store' = RemoveItem(RemoveItem(store, "access_token"), "refresh_token")
        /\ Finish(p, Returned(Undefined))
    /\ UNCHANGED <<op, entry, reqOpts, sent>>

\* What response.json() of /api/auth/me/ settles to.
UserBodies == {[kind |-> "json"], [kind |-> "reject"]}

\* studentprofile.js 17-30: StudentProfile.checkAuth() up to its await of fetch.
SP_CheckAuth(p) ==
    /\ Invoke(p, "StudentProfile.checkAuth")
    /\ LET token == GetItem(store, "access_token") IN
       IF ~Truthy(token)
       THEN /\ Finish(p, Returned(Undefined))
            /\ UNCHANGED sent
       ELSE /\ Issue(p, Request("me", [headers |-> BearerHeaders(token)]))
            /\ pc' = [pc EXCEPT ![p] = "sp_fetch"]
            /\ UNCHANGED result
    /\ UNCHANGED <<store, reqOpts>>

\* studentprofile.js 32-41: the fetch settled; a rejection and a non-2xx
\* answer both end in the catch block, which removes the access token.
SP_CheckAuthFetchSettled(p) ==
    /\ pc[p] = "sp_fetch"
    /\ \E o \in FetchOutcomes :
        /\ Settle(p, o)
        /\ IF o.kind = "response" /\ Ok(o.status)
           THEN /\ pc' = [pc EXCEPT ![p] = "sp_json"]
                /\ UNCHANGED <<store, result>>
           ELSE /\ store' = RemoveItem(store, "access_token")
                /\ Finish(p, Returned(Undefined))
    /\ UNCHANGED <<op, entry, reqOpts, sent>>

\* studentprofile.js 36-41: response.json() settled.
SP_CheckAuthJsonSettled(p) ==
    /\ pc[p] = "sp_json"
    /\ \E b \in UserBodies :
        /\ Settle(p, b)
        /\ IF b.kind = "reject"
           THEN store' = RemoveItem(store, "access_token")
           ELSE UNCHANGED store
        /\ Finish(p, Returned(Undefined))
    /\ UNCHANGED <<op, entry, reqOpts, sent>>

\* app.js 556-562: FeedbackManagement.logout(); of the session's two keys it
\* removes access_token (its other keys are not session tokens).
FM_Logout(p) ==
    /\ Invoke(p, "FeedbackManagement.logout")
    /\ store' = RemoveItem(store, "access_token")
    /\ Finish(p, Returned(Undefined))
    /\ UNCHANGED <<reqOpts, sent>>

\* auth-utils.js 105-109: clearAuthTokens()
ClearAuthTokens(st) == RemoveItem(RemoveItem(st, "access_token"), "refresh_token")

\* auth-utils.js 154-163: logout()
Logout_Call(p) ==
    /\ Invoke(p, "logout")
    /\ store' = ClearAuthTokens(store)
    /\ Finish(p, Returned(Undefined))
    /\ UNCHANGED <<reqOpts, sent>>

\* ------------------------------------------- part_009: NavbarManager

\* The re-checks of one checkAuthStatus() the model follows: the refresh
\* endpoint is asked at most this many times.
MaxRefreshes == 2

\* How many requests invocation p has sent to url.
Issued(p, url) == Cardinality({i \in 1..Len(sent[p]) : sent[p][i].url = url})

BothTokensRemoved(st) == RemoveItem(RemoveItem(st, "access_token"), "refresh_token")

\* part_009 113-127: which of the two navbar blocks is displayed
ShowAuthButtons == Returned([shown |-> "authButtons"])
ShowUserMenu == Returned([shown |-> "userMenu"])

\* part_009 46-63: checkAuthStatus() over the store st, up to its await.
NB_Verify(p, st) ==
    LET token == GetItem(st, "access_token") IN
    IF ~Truthy(token)
    THEN /\ Finish(p, ShowAuthButtons)
         /\ UNCHANGED sent
    ELSE /\ Issue(p, Request("verify", [method |-> "GET", headers |-> BearerHeaders(token)]))
         /\ pc' = [pc EXCEPT ![p] = "nb_verify"]
         /\ UNCHANGED result

\* Page code calls NavbarManager.checkAuthStatus().
NB_CheckAuthStatus(p) ==
    /\ Invoke(p, "NavbarManager.checkAuthStatus")
    /\ NB_Verify(p, store)
    /\ UNCHANGED <<store, reqOpts>>

\* part_009 65-79 and 82-98: the verify fetch settled; on a non-2xx answer
\* tryRefreshToken() runs up to its await.
NB_VerifySettled(p) ==
    /\ pc[p] = "nb_verify"
    /\ \E o \in FetchOutcomes :
        /\ Settle(p, o)
        /\ IF o.kind = "reject"
           THEN /\ Finish(p, ShowAuthButtons)
                /\ UNCHANGED sent
           ELSE IF Ok(o.status)
           THEN /\ pc' = [pc EXCEPT ![p] = "nb_vjson"]
                /\ UNCHANGED <<sent, result>>
           ELSE LET refreshToken == GetItem(store, "refresh_token") IN
                IF ~Truthy(refreshToken)
                THEN /\ Finish(p, ShowAuthButtons)
                     /\ UNCHANGED sent
                ELSE /\ Issued(p, "refresh") < MaxRefreshes
                     /\ Issue(p, Request("refresh",
                                  [method |-> "POST",
                                   headers |-> ("Content-Type" :> "application/json"),
                                   body |-> [refresh |-> refreshToken]]))
                     /\ pc' = [pc EXCEPT ![p] = "nb_refresh"]
                     /\ UNCHANGED result
    /\ UNCHANGED <<store, op, entry, reqOpts>>

\* part_009 66-71, 76-79: response.json() of the verify answer settled.
NB_VerifyJsonSettled(p) ==
    /\ pc[p] = "nb_vjson"
    /\ \E b \in UserBodies :
        /\ Settle(p, b)
        /\ Finish(p, IF b.kind = "json" THEN ShowUserMenu ELSE ShowAuthButtons)
    /\ UNCHANGED <<store, op, entry, reqOpts, sent>>

\* part_009 100-110: tryRefreshToken, the refresh fetch settled.
NB_RefreshSettled(p) ==
    /\ pc[p] = "nb_refresh"
    /\ \E o \in FetchOutcomes :
        /\ Settle(p, o)
        /\ IF o.kind = "response" /\ Ok(o.status)
           THEN /\ pc' = [pc EXCEPT ![p] = "nb_rjson"]
                /\ UNCHANGED <<store, result>>
           ELSE /\ store' = BothTokensRemoved(store)
                /\ Finish(p, ShowAuthButtons)
    /\ UNCHANGED <<op, entry, reqOpts, sent>>

\* part_009 100-104, 107-110: response.json() of the refresh answer settled;
\* with the new token stored, checkAuthStatus() is called again and runs up
\* to its await.
NB_RefreshJsonSettled(p) ==
    /\ pc[p] = "nb_rjson"
    /\ \E b \in RefreshBodies :
        /\ Settle(p, b)
        /\ IF b.kind = "reject"
           THEN /\ store' = BothTokensRemoved(store)
                /\ Finish(p, ShowAuthButtons)
                /\ UNCHANGED sent
           ELSE LET st == SetItem(store, "access_token", b.access)
                IN  /\ store' = st
                    /\ NB_Verify(p, st)
    /\ UNCHANGED <<op, entry, reqOpts>>

\* ------------------------------------------- part_002: the chat history page

\* part_002 148-159 and 178-182: loadChatHistory() with what its
\* authenticatedFetch gave it: a 401 removes the tokens and schedules the
\* redirect to the login page; anything else ends in the list or a toast.
CH_AfterFetch(p, status) ==
    IF status = 401
    THEN /\ store' = BothTokensRemoved(store)
         /\ Finish(p, Returned([redirect |-> TRUE]))
    ELSE /\ UNCHANGED store
         /\ Finish(p, Returned([redirect |-> FALSE]))

\* part_002 131-146 and 42-62: loadChatHistory() up to the await of the fetch
\* in its authenticatedFetch; the request goes out with or without a token.
CH_LoadChatHistory(p) ==
    /\ Invoke(p, "loadChatHistory")
    /\ LET token == GetItem(store, "access_token")
           defaultHeaders == IF Truthy(token)
                             THEN ("Content-Type" :> "application/json") @@
                                  ("Authorization" :> Bearer(token))
                             ELSE ("Content-Type" :> "application/json")
           config == ("headers" :> defaultHeaders)
       IN  /\ reqOpts' = [reqOpts EXCEPT ![p] = config]
           /\ Issue(p, Request("resource", config))
           /\ pc' = [pc EXCEPT ![p] = "ch_fetch1"]
    /\ UNCHANGED <<store, result>>

\* part_002 62-79, 92: the fetch settled.  A rejection is caught by
\* loadChatHistory (178-182); a 401 with a token and a refresh token starts
\* the refresh; every other response is returned.
CH_Fetch1Settled(p) ==
    /\ pc[p] = "ch_fetch1"
    /\ \E o \in FetchOutcomes :
        /\ Settle(p, o)
        /\ IF o.kind = "reject"
           THEN /\ Finish(p, Returned([redirect |-> FALSE]))
                /\ UNCHANGED <<store, sent>>
           ELSE LET token == GetItem(entry[p], "access_token")
                    refreshToken == GetItem(store, "refresh_token")
                IN  IF o.status = 401 /\ Truthy(token) /\ Truthy(refreshToken)
                    THEN /\ Issue(p, Request("refresh",
                                      [method |-> "POST",
                                       headers |-> ("Content-Type" :> "application/json"),
                                       body |-> [refresh |-> refreshToken]]))
                         /\ pc' = [pc EXCEPT ![p] = "ch_refresh"]
                         /\ UNCHANGED <<store, result>>
                    ELSE /\ CH_AfterFetch(p, o.status)
                         /\ UNCHANGED sent
    /\ UNCHANGED <<op, entry, reqOpts>>

\* part_002 79-92: the refresh fetch settled.  A rejection is logged (87-89)
\* and a non-2xx answer ignored; either way the first response, the 401, is
\* what authenticatedFetch returns.
CH_RefreshSettled(p) ==
    /\ pc[p] = "ch_refresh"
    /\ \E o \in FetchOutcomes :
        /\ Settle(p, o)
        /\ IF o.kind = "response" /\ Ok(o.status)
           THEN /\ pc' = [pc EXCEPT ![p] = "ch_rjson"]
                /\ UNCHANGED <<store, result>>
           ELSE CH_AfterFetch(p, 401)
    /\ UNCHANGED <<op, entry, reqOpts, sent>>

\* part_002 79-86: refreshResponse.json() settled; the new token is stored
\* and the request sent again with it.
CH_RefreshJsonSettled(p) ==
    /\ pc[p] = "ch_rjson"
    /\ \E b \in RefreshBodies :
        /\ Settle(p, b)
        /\ IF b.kind = "reject"
           THEN /\ CH_AfterFetch(p, 401)
                /\ UNCHANGED <<reqOpts, sent>>
           ELSE LET headers == Spread(reqOpts[p]["headers"],
                                      ("Authorization" :> Bearer(b.access)))
                    config == [reqOpts[p] EXCEPT !["headers"] = headers]
                IN  /\ store' = SetItem(store, "access_token", b.access)
                    /\ reqOpts' = [reqOpts EXCEPT ![p] = config]
                    /\ Issue(p, Request("resource", config))
                    /\ pc' = [pc EXCEPT ![p] = "ch_fetch2"]
                    /\ UNCHANGED result
    /\ UNCHANGED <<op, entry>>

\* part_002 85-92: the retry settled; its rejection too is caught at 87-89,
\* and the first response returned.
CH_Fetch2Settled(p) ==
    /\ pc[p] = "ch_fetch2"
    /\ \E o \in FetchOutcomes :
        /\ Settle(p, o)
        /\ CH_AfterFetch(p, IF o.kind = "reject" THEN 401 ELSE o.status)
    /\ UNCHANGED <<op, entry, reqOpts, sent>>

\* --------------------------- script.js and part_007: refreshAccessToken

\* script.js 14-17 and 44-50: checkAuthStatus() calls
\* refreshAccessToken(refreshToken) with the stored refresh token.
SC_Refresh(p) ==
    /\ Invoke(p, "script.refreshAccessToken")
    /\ LET refreshToken == GetItem(store, "refresh_token") IN
       /\ Truthy(refreshToken)
       /\ Issue(p, Request("refresh",
                    [method |-> "POST",
                     headers |-> ("Content-Type" :> "application/json"),
                     body |-> [refresh |-> refreshToken]]))
    /\ pc' = [pc EXCEPT ![p] = "sc_fetch"]
    /\ UNCHANGED <<store, reqOpts, result>>

\* SC_FetchSettled with a rejected fetch handled like a non-2xx answer.
SC_FetchSettled_ClearsOnThrow(p) ==
    /\ pc[p] = "sc_fetch"
    /\ \E o \in FetchOutcomes :
        /\ Settle(p, o)
        /\ IF o.kind = "response" /\ Ok(o.status)
           THEN /\ pc' = [pc EXCEPT ![p] = "sc_json"]
                /\ UNCHANGED <<store, result>>
           ELSE /\ store' = BothTokensRemoved(store)
                /\ Finish(p, Returned(FALSE))
    /\ UNCHANGED <<op, entry, reqOpts, sent>>

\* script.js 52-64: the refresh fetch settled.
SC_FetchSettled(p) ==
    /\ pc[p] = "sc_fetch"
    /\ \E o \in FetchOutcomes :
        /\ Settle(p, o)
        /\ IF o.kind = "reject"
           THEN /\ Finish(p, Returned(FALSE))
                /\ UNCHANGED store
           ELSE IF Ok(o.status)
           THEN /\ pc' = [pc EXCEPT ![p] = "sc_json"]
                /\ UNCHANGED <<store, result>>
           ELSE /\ store' = BothTokensRemoved(store)
                /\ Finish(p, Returned(FALSE))
    /\ UNCHANGED <<op, entry, reqOpts, sent>>

\* script.js 53-55, 61-64: res.json() settled.
SC_JsonSettled(p) ==
    /\ pc[p] = "sc_json"
    /\ \E b \in RefreshBodies :
        /\ Settle(p, b)
        /\ IF b.kind = "reject"
           THEN /\ Finish(p, Returned(FALSE))
                /\ UNCHANGED store
           ELSE /\ store' = SetItem(store, "access_token", b.access)
                /\ Finish(p, Returned(TRUE))
    /\ UNCHANGED <<op, entry, reqOpts, sent>>

\* part_007 38-40 and 97-103: AdminDashboard.checkAuth() calls
\* this.refreshAccessToken(refreshToken) with the stored refresh token.
AD_Refresh(p) ==
    /\ Invoke(p, "AdminDashboard.refreshAccessToken")
    /\ LET refreshToken == GetItem(store, "refresh_token") IN
       /\ Truthy(refreshToken)
       /\ Issue(p, Request("refresh",
                    [method |-> "POST",
                     headers |-> ("Content-Type" :> "application/json"),
                     body |-> [refresh |-> refreshToken]]))
    /\ pc' = [pc EXCEPT ![p] = "ad_fetch"]
    /\ UNCHANGED <<store, reqOpts, result>>

\* part_007 105-117: the refresh fetch settled.
AD_FetchSettled(p) ==
    /\ pc[p] = "ad_fetch"
    /\ \E o \in FetchOutcomes :
        /\ Settle(p, o)
        /\ IF o.kind = "reject"
           THEN /\ Finish(p, Returned(FALSE))
                /\ UNCHANGED store
           ELSE IF Ok(o.status)
           THEN /\ pc' = [pc EXCEPT ![p] = "ad_json"]
                /\ UNCHANGED <<store, result>>
           ELSE /\ store' = BothTokensRemoved(store)
                /\ Finish(p, Returned(FALSE))
    /\ UNCHANGED <<op, entry, reqOpts, sent>>

\* part_007 106-108, 114-117: res.json() settled.
AD_JsonSettled(p) ==
    /\ pc[p] = "ad_json"
    /\ \E b \in RefreshBodies :
        /\ Settle(p, b)
        /\ IF b.kind = "reject"
           THEN /\ Finish(p, Returned(FALSE))
                /\ UNCHANGED store
           ELSE /\ store' = SetItem(store, "access_token", b.access)
                /\ Finish(p, Returned(TRUE))
    /\ UNCHANGED <<op, entry, reqOpts, sent>>

\* ------------------------------------- the callers of authenticatedFetch

\* The invocation's frame is gone: page code runs on.
Unwind(p) ==
    /\ pc' = [pc EXCEPT ![p] = "idle"]
    /\ op' = [op EXCEPT ![p] = "none"]
    /\ reqOpts' = [reqOpts EXCEPT ![p] = EmptyObject]
    /\ sent' = [sent EXCEPT ![p] = <<>>]
    /\ recv' = [recv EXCEPT ![p] = <<>>]
    /\ entry' = [entry EXCEPT ![p] = EmptyStore]
    /\ result' = [result EXCEPT ![p] = NoResult]

\* part_000 358-380: sendMessage() up to the await inside authenticatedFetch;
\* without both tokens it schedules the redirect to the login page.
SM_Call(p) ==
    /\ Invoke(p, "sendMessage")
    /\ IF ~IsAuthenticated(store)
       THEN /\ pc' = [pc EXCEPT ![p] = "sm_timer"]
            /\ UNCHANGED <<store, reqOpts, sent, result>>
       ELSE AF_Enter(p, ("method" :> "POST") @@ ("body" :> "q"))

\* part_000 382-402: authenticatedFetch has settled.  On the
\* authentication-failed error the catch block schedules the redirect; any
\* other outcome ends in a chat message (reading the response body changes
\* neither the store nor the location).
SM_Caught(p) ==
    /\ pc[p] = "done"
    /\ op[p] = "sendMessage"
    /\ IF result[p] = Threw(AuthFailedMsg)
       THEN /\ pc' = [pc EXCEPT ![p] = "sm_timer"]
            /\ UNCHANGED <<op, reqOpts, sent, recv, entry, result>>
       ELSE Unwind(p)
    /\ UNCHANGED store

\* part_000 364-366, 393-395: the timer fires; window.location.href = "/login/"
SM_TimerFired(p) ==
    /\ pc[p] = "sm_timer"
    /\ pc' = [pc EXCEPT ![p] = "at_login"]
    /\ UNCHANGED <<store, op, reqOpts, sent, recv, entry, result>>

\* recommendationscript.js 100-116: ApiService.fetchApi(url, method, body) up
\* to the await inside authenticatedFetch; without a token it throws to its
\* caller.
FA_Call(p) ==
    /\ Invoke(p, "ApiService.fetchApi")
    /\ LET token == GetItem(store, "access_token") IN
       IF ~Truthy(token)
       THEN /\ Finish(p, Threw("User is not authenticated."))
            /\ UNCHANGED <<store, reqOpts, sent>>
       ELSE AF_Enter(p, ("method" :> "POST") @@ ("body" :> "q"))

\* recommendationscript.js 133-158, 269-296: authenticatedFetch has settled.
\* fetchApi logs and rethrows whatever was thrown (151-158), and the
\* prediction handler's catch block is empty (291-293): the handler ends, the
\* page stays where it is.
FA_Caught(p) ==
    /\ pc[p] = "done"
    /\ op[p] = "ApiService.fetchApi"
    /\ Unwind(p)
    /\ UNCHANGED store

\* ------------------------------------------------------------ page code

\* Page code has taken the outcome; the invocation's frame is gone.
Return(p) ==
    /\ pc[p] = "done"
    /\ op[p] \notin CallerOps
    /\ pc' = [pc EXCEPT ![p] = "idle"]
    /\ op' = [op EXCEPT ![p] = "none"]
    /\ reqOpts' = [reqOpts EXCEPT ![p] = EmptyObject]
    /\ sent' = [sent EXCEPT ![p] = <<>>]
    /\ recv' = [recv EXCEPT ![p] = <<>>]
    /\ entry' = [entry EXCEPT ![p] = EmptyStore]
    /\ result' = [result EXCEPT ![p] = NoResult]
    /\ UNCHANGED store

\* No invocation is in progress.
Quiet == \A q \in Procs : pc[q] = "idle"

\* Page code awaits each operation before it invokes the next; a pending
\* network promise settles and the invocation runs on; page code takes the
\* outcome.
Next ==
    \E p \in Procs :
        \/ Quiet /\ RT_Call(p)
        \/ Quiet /\ AF_Call(p)
        \/ Quiet /\ AM_CheckAuthStatus(p)
        \/ Quiet /\ AM_Login(p)
        \/ Quiet /\ AM_Logout(p)
        \/ Quiet /\ CheckAuthStatus_Call(p)
        \/ Quiet /\ SP_CheckAuth(p)
        \/ Quiet /\ FM_Logout(p)
        \/ Quiet /\ Logout_Call(p)
        \/ CheckAuthStatus_FetchSettled(p)
        \/ SP_CheckAuthFetchSettled(p)
        \/ SP_CheckAuthJsonSettled(p)
        \/ RT_FetchSettled(p)
        \/ RT_JsonSettled(p)
        \/ AF_Fetch1Settled(p)
        \/ AF_Fetch2Settled(p)
        \/ AM_RefreshFetchSettled(p)
        \/ AM_RefreshJsonSettled(p)
        \/ AM_LoginFetchSettled(p)
        \/ AM_LoginJsonSettled(p)
        \/ AM_LoginErrorJsonSettled(p)
        \/ AM_LogoutFetchSettled(p)
        \/ Return(p)

Spec == Init /\ [][Next]_vars

\* The event loop resumes page code once an invocation has settled; that a
\* pending network promise ever settles is not guaranteed.
FairSpec == Spec /\ \A p \in Procs : WF_vars(Return(p))

\* A page that holds a session (a pair a login wrote) or none.
SessionStores ==
    {EmptyStore,
     [k \in Keys |-> IF k = "access_token" THEN Str("a1") ELSE Str("r1")]}

SessionInit ==
    /\ store \in SessionStores
    /\ pc = [p \in Procs |-> "idle"]
    /\ op = [p \in Procs |-> "none"]
    /\ reqOpts = [p \in Procs |-> EmptyObject]
    /\ sent = [p \in Procs |-> <<>>]
    /\ recv = [p \in Procs |-> <<>>]
    /\ entry = [p \in Procs |-> EmptyStore]
    /\ result = [p \in Procs |-> NoResult]

\* Handlers of one page running side by side, each invoked once: a login form
\* submitted, a logout clicked and a status check begun while the others'
\* network promises are pending; each continuation runs as a task of its own.
LoginNext ==
    \E p \in Procs :
        \/ AM_Login(p)
        \/ AM_Logout(p)
        \/ AM_CheckAuthStatus(p)
        \/ AM_LoginFetchSettled(p)
        \/ AM_LoginJsonSettled(p)
        \/ AM_LoginErrorJsonSettled(p)
        \/ AM_LogoutFetchSettled(p)
        \/ AM_RefreshFetchSettled(p)
        \/ AM_RefreshJsonSettled(p)

LoginSpec == SessionInit /\ [][LoginNext]_vars

\* Calls of one auth-utils page running side by side, each invoked once:
\* authenticatedFetch calls, a refreshAccessToken() and a logout() clicked
\* while the others' network promises are pending.
FetchNext ==
    \E p \in Procs :
        \/ AF_Call(p)
        \/ RT_Call(p)
        \/ Logout_Call(p)
        \/ AF_Fetch1Settled(p)
        \/ AF_Fetch2Settled(p)
        \/ RT_FetchSettled(p)
        \/ RT_JsonSettled(p)

FetchSpec == SessionInit /\ [][FetchNext]_vars

\* authenticatedFetch(url) calls of one page in flight side by side, each
\* invoked once with the default options.
RetryNext ==
    \E p \in Procs :
        \/ AF_CallWith(p, EmptyObject)
        \/ AF_Fetch1Settled(p)
        \/ AF_Fetch2Settled(p)
        \/ RT_FetchSettled(p)
        \/ RT_JsonSettled(p)

RetrySpec == SessionInit /\ [][RetryNext]_vars

\* The page functions that call authenticatedFetch, one at a time, with the
\* handling of its outcome.
CallerNext ==
    \E p \in Procs :
        \/ Quiet /\ SM_Call(p)
        \/ Quiet /\ FA_Call(p)
        \/ AF_Fetch1Settled(p)
        \/ AF_Fetch2Settled(p)
        \/ RT_FetchSettled(p)
        \/ RT_JsonSettled(p)
        \/ SM_Caught(p)
        \/ SM_TimerFired(p)
        \/ FA_Caught(p)

\* A browser session from its first page load, nothing stored yet: logins,
\* status checks, refreshes, requests and logouts of the auth-utils.js and
\* AuthManager pages.  The login form is submitted while nothing else runs,
\* and page code takes its outcome; the calls that follow run side by side,
\* each to its end.
EmptyInit ==
    /\ store = EmptyStore
    /\ pc = [p \in Procs |-> "idle"]
    /\ op = [p \in Procs |-> "none"]
    /\ reqOpts = [p \in Procs |-> EmptyObject]
    /\ sent = [p \in Procs |-> <<>>]
    /\ recv = [p \in Procs |-> <<>>]
    /\ entry = [p \in Procs |-> EmptyStore]
    /\ result = [p \in Procs |-> NoResult]

LifeNext ==
    \E p \in Procs :
        \/ Quiet /\ AM_Login(p)
        \/ AM_Logout(p)
        \/ AM_CheckAuthStatus(p)
        \/ RT_Call(p)
        \/ AF_CallWith(p, EmptyObject)
        \/ Logout_Call(p)
        \/ AM_LoginFetchSettled(p)
        \/ AM_LoginJsonSettled(p)
        \/ AM_LoginErrorJsonSettled(p)
        \/ AM_LogoutFetchSettled(p)
        \/ AM_RefreshFetchSettled(p)
        \/ AM_RefreshJsonSettled(p)
        \/ RT_FetchSettled(p)
        \/ RT_JsonSettled(p)
        \/ AF_Fetch1Settled(p)
        \/ AF_Fetch2Settled(p)
        \/ op[p] = "AuthManager.login" /\ Return(p)

LifeSpec == EmptyInit /\ [][LifeNext]_vars

\* Every page's own token refresh, one call at a time: auth-utils.js,
\* AuthManager, script.js, AdminDashboard, NavbarManager and the chat history
\* page.
RefreshNext ==
    \E p \in Procs :
        \/ Quiet /\ RT_Call(p)
        \/ Quiet /\ AM_CheckAuthStatus(p)
        \/ Quiet /\ SC_Refresh(p)
        \/ Quiet /\ AD_Refresh(p)
        \/ Quiet /\ NB_CheckAuthStatus(p)
        \/ Quiet /\ CH_LoadChatHistory(p)
        \/ RT_FetchSettled(p)
        \/ RT_JsonSettled(p)
        \/ AM_RefreshFetchSettled(p)
        \/ AM_RefreshJsonSettled(p)
        \/ SC_FetchSettled(p)
        \/ SC_JsonSettled(p)
        \/ AD_FetchSettled(p)
        \/ AD_JsonSettled(p)
        \/ NB_VerifySettled(p)
        \/ NB_VerifyJsonSettled(p)
        \/ NB_RefreshSettled(p)
        \/ NB_RefreshJsonSettled(p)
        \/ CH_Fetch1Settled(p)
        \/ CH_RefreshSettled(p)
        \/ CH_RefreshJsonSettled(p)
        \/ CH_Fetch2Settled(p)
        \/ Return(p)

RefreshSpec == Init /\ [][RefreshNext]_vars

\* The event loop runs a settled call's continuation and a timer that is due.
CallerSpec ==
    /\ Init
    /\ [][CallerNext]_vars
    /\ \A p \in Procs :
          /\ WF_vars(SM_Caught(p))
          /\ WF_vars(SM_TimerFired(p))
          /\ WF_vars(FA_Caught(p))

\* What the access_token key may hold when a query runs: what the program
\* itself stores, or a string that is not a token of the backend.
QueryStores ==
    {st \in [Keys -> StoredAccess \cup StoredRefresh \cup {Str(m) : m \in MalformedTokens}] :
        /\ st["access_token"] \in StoredAccess \cup {Str(m) : m \in MalformedTokens}
        /\ st["refresh_token"] \in StoredRefresh}

QueryInit ==
    /\ store \in QueryStores
    /\ pc = [p \in Procs |-> "idle"]
    /\ op = [p \in Procs |-> "none"]
    /\ reqOpts = [p \in Procs |-> EmptyObject]
    /\ sent = [p \in Procs |-> <<>>]
    /\ recv = [p \in Procs |-> <<>>]
    /\ entry = [p \in Procs |-> EmptyStore]
    /\ result = [p \in Procs |-> NoResult]

\* The synchronous queries, applied to every store and clock reading.
QueryNext ==
    \E p \in Procs :
        \/ IsTokenExpired_Call(p)
        \/ AM_IsTokenExpired_Call(p)
        \/ IsAuthenticated_Call(p)
        \/ Return(p)

QuerySpec == QueryInit /\ [][QueryNext]_vars

\* --------------------------------------------------------------- the claims

Done(p, name) == pc[p] = "done" /\ op[p] = name

\* How many of invocation p's requests went to url.
Count(p, url) == Cardinality({i \in 1..Len(sent[p]) : sent[p][i].url = url})

\* The k-th settled promise of invocation p was a Response with this status.
Answered(p, k, status) ==
    /\ Len(recv[p]) >= k
    /\ recv[p][k].kind = "response"
    /\ recv[p][k].status = status

\* The k-th settled promise of invocation p was a Response with a 2xx status.
AnsweredOk(p, k) ==
    /\ Len(recv[p]) >= k
    /\ recv[p][k].kind = "response"
    /\ Ok(recv[p][k].status)

\* The k-th settled promise of invocation p was rejected.
Rejected(p, k) == Len(recv[p]) >= k /\ recv[p][k].kind = "reject"

\* The k-th settled promise of invocation p was a JSON body carrying an
\* access token.
GotAccess(p, k) ==
    /\ Len(recv[p]) >= k
    /\ recv[p][k].kind = "json"
    /\ recv[p][k].access.type = "string"

\* authenticatedFetch got 401, and its refresh got a 2xx whose body carried
\* an access token.
RefreshedAfter401(p) ==
    /\ op[p] = "authenticatedFetch"
    /\ Answered(p, 1, 401)
    /\ AnsweredOk(p, 2)
    /\ GotAccess(p, 3)

\* The Authorization header of the k-th request of invocation p.
AuthorizationOf(p, k) == sent[p][k].opts["headers"]["Authorization"]

\* C1: when authenticatedFetch's first response is 401 and the refresh
\* succeeds with a body carrying access token X, the call issues exactly two
\* requests to the resource and exactly one to the refresh endpoint, and the
\* second resource request's Authorization header is "Bearer X".
C1_RetryCarriesRefreshedToken ==
    \A p \in Procs :
        RefreshedAfter401(p) =>
            /\ pc[p] \in {"af_fetch2", "done"}
            /\ Len(sent[p]) = 3
            /\ Count(p, "resource") = 2
            /\ Count(p, "refresh") = 1
            /\ sent[p][3].url = "resource"
            /\ AuthorizationOf(p, 3) = "Bearer " \o recv[p][3].access.val

\* C1's case: a call that got 401, refreshed to a token other than the one it
\* began with, retried and returned the retry's 200.
C1_Witness ==
    \E p \in Procs :
        /\ RefreshedAfter401(p)
        /\ pc[p] = "done"
        /\ entry[p]["access_token"].val \in AccessTokens
        /\ recv[p][3].access # entry[p]["access_token"]
        /\ result[p] = Returned([status |-> 200, of |-> 3])

\* C2: authenticatedFetch never issues more than two resource requests nor
\* more than one refresh request, and when the retry is answered 401 again
\* the call ends there, returning that second 401 response.
C2_NoSecondRetry ==
    \A p \in Procs :
        op[p] = "authenticatedFetch" =>
            /\ Count(p, "resource") <= 2
            /\ Count(p, "refresh") <= 1
            /\ ( Answered(p, 1, 401) /\ AnsweredOk(p, 2) /\ Answered(p, 4, 401) =>
                    /\ pc[p] = "done"
                    /\ Len(sent[p]) = 3
                    /\ Len(recv[p]) = 4
                    /\ result[p] = Returned([status |-> 401, of |-> 3]) )

\* C2's case: 401, a successful refresh, and 401 again on the retry.
C2_Witness ==
    \E p \in Procs :
        /\ Done(p, "authenticatedFetch")
        /\ Answered(p, 1, 401)
        /\ GotAccess(p, 3)
        /\ Answered(p, 4, 401)

\* C3: when authenticatedFetch's first response has a status other than 401,
\* the call ends with that one request issued, no refresh, the stored tokens
\* as they were, and that response as its return value.
C3_Non401ReturnedAtOnce ==
    \A p \in Procs :
        /\ op[p] = "authenticatedFetch"
        /\ Len(recv[p]) >= 1
        /\ recv[p][1].kind = "response"
        /\ recv[p][1].status # 401
        => /\ pc[p] = "done"
           /\ Len(recv[p]) = 1
           /\ Len(sent[p]) = 1
           /\ sent[p][1].url = "resource"
           /\ store = entry[p]
           /\ result[p] = Returned([status |-> recv[p][1].status, of |-> 1])

\* C3's case: a 500 on the first try, with both tokens stored.
C3_Witness ==
    \E p \in Procs :
        /\ Done(p, "authenticatedFetch")
        /\ Answered(p, 1, 500)
        /\ Truthy(store["access_token"])
        /\ Truthy(store["refresh_token"])

\* refreshAccessToken() inside authenticatedFetch returned false: there was no
\* refresh token, the refresh fetch was rejected or answered non-2xx, or
\* reading its body was rejected.
RefreshFailedAfter401(p) ==
    /\ Done(p, "authenticatedFetch")
    /\ Answered(p, 1, 401)
    /\ \/ ~Truthy(entry[p]["refresh_token"])
       \/ Rejected(p, 2)
       \/ \E s \in Statuses : ~Ok(s) /\ Answered(p, 2, s)
       \/ Rejected(p, 3)

\* C4: when the resource answers 401 and the refresh returns false,
\* authenticatedFetch throws the authentication-failed error and has issued
\* the resource request once only.
C4_FailedRefreshThrows ==
    \A p \in Procs :
        RefreshFailedAfter401(p) =>
            /\ result[p] = Threw(AuthFailedMsg)
            /\ Count(p, "resource") = 1
            /\ Len(sent[p]) <= 2

\* C4's case: 401 from the resource, then the refresh endpoint rejects the
\* refresh token.
C4_Witness ==
    \E p \in Procs :
        /\ RefreshFailedAfter401(p)
        /\ Answered(p, 2, 401)

\* C5: authenticatedFetch begun with no access token stored throws the
\* no-token error at once, having issued no request (resource or refresh) and
\* left the store as it was.
C5_NoTokenNoRequest ==
    \A p \in Procs :
        op[p] = "authenticatedFetch" /\ ~Truthy(entry[p]["access_token"]) =>
            /\ pc[p] = "done"
            /\ result[p] = Threw(NoTokenMsg)
            /\ sent[p] = <<>>
            /\ recv[p] = <<>>
            /\ store = entry[p]

\* C5's case: no access token, yet a refresh token that a refresh could use.
C5_Witness ==
    \E p \in Procs :
        /\ Done(p, "authenticatedFetch")
        /\ entry[p]["access_token"] = Null
        /\ Truthy(entry[p]["refresh_token"])

\* What refresh() returned, as the finished invocation p shows it: the return
\* value of refreshAccessToken(), or the isAuthenticated of the
\* checkAuthStatus() that called AuthManager.refreshAccessToken.
RefreshReturned(p, b) ==
    /\ pc[p] = "done"
    /\ IF op[p] = "refreshAccessToken"
       THEN result[p] = Returned(b)
       ELSE result[p] = Returned([isAuthenticated |-> b, needsRefresh |-> ~b])

\* Invocation p is a refresh of its own: refreshAccessToken() called by page
\* code, or the AuthManager.refreshAccessToken of a checkAuthStatus().
IsRefresh(p) == op[p] \in {"refreshAccessToken", "AuthManager.checkAuthStatus"}

\* C6: with a refresh token stored and the refresh endpoint answering 2xx
\* with body {access: X}, refresh() returns true, the stored access token is
\* X and the stored refresh token is the one stored before; so too for the
\* refresh inside authenticatedFetch.
C6_RefreshStoresAccessOnly ==
    \A p \in Procs :
        /\ IsRefresh(p) /\ AnsweredOk(p, 1) /\ GotAccess(p, 2) =>
              /\ RefreshReturned(p, TRUE)
              /\ store["access_token"] = recv[p][2].access
              /\ store["refresh_token"] = entry[p]["refresh_token"]
        /\ RefreshedAfter401(p) =>
              /\ store["access_token"] = recv[p][3].access
              /\ store["refresh_token"] = entry[p]["refresh_token"]

\* C6's case: refreshAccessToken() replaced a stored access token by another.
C6_Witness ==
    \E p \in Procs :
        /\ Done(p, "refreshAccessToken")
        /\ GotAccess(p, 2)
        /\ Truthy(entry[p]["access_token"])
        /\ store["access_token"] # entry[p]["access_token"]
        /\ store["refresh_token"] = Str("r1")

\* C7: with a refresh token stored and the refresh endpoint answering a
\* non-2xx status, refresh() returns false and neither token is stored
\* afterwards; so too for the refresh inside authenticatedFetch.
C7_RejectedRefreshClearsBoth ==
    \A p \in Procs :
        \A s \in Statuses :
            ~Ok(s) =>
                /\ IsRefresh(p) /\ Answered(p, 1, s) =>
                      /\ RefreshReturned(p, FALSE)
                      /\ store = EmptyStore
                /\ op[p] = "authenticatedFetch" /\ Answered(p, 1, 401) /\ Answered(p, 2, s) =>
                      /\ pc[p] = "done"
                      /\ store = EmptyStore

\* C7's case: both tokens stored, and the refresh endpoint answers 500.
C7_Witness ==
    \E p \in Procs :
        /\ Done(p, "refreshAccessToken")
        /\ Answered(p, 1, 500)
        /\ Truthy(entry[p]["access_token"])
        /\ Truthy(entry[p]["refresh_token"])

\* The refresh call of invocation p threw: its fetch was rejected, or the
\* read of its 2xx body was.
RefreshThrew(p, k) == Rejected(p, k) \/ (AnsweredOk(p, k) /\ Rejected(p, k + 1))

\* C8: with a refresh token stored and the refresh call throwing, refresh()
\* returns false and both stored tokens are what they were before the call;
\* so too for the refresh inside authenticatedFetch.
C8_ThrownRefreshKeepsStore ==
    \A p \in Procs :
        /\ IsRefresh(p) /\ RefreshThrew(p, 1) =>
              /\ RefreshReturned(p, FALSE)
              /\ store = entry[p]
        /\ op[p] = "authenticatedFetch" /\ Answered(p, 1, 401) /\ RefreshThrew(p, 2) =>
              /\ pc[p] = "done"
              /\ store = entry[p]

\* C8's case: both tokens stored, the refresh fetch rejected, both still stored.
C8_Witness ==
    \E p \in Procs :
        /\ Done(p, "refreshAccessToken")
        /\ Rejected(p, 1)
        /\ Truthy(store["access_token"])
        /\ Truthy(store["refresh_token"])

\* C9: with no refresh token stored, refreshAccessToken() returns false at
\* once, issues no request and leaves the store (a stored access token
\* included) as it was; so too for the refresh inside authenticatedFetch.
C9_NoRefreshTokenNoRequest ==
    \A p \in Procs :
        ~Truthy(entry[p]["refresh_token"]) =>
            /\ op[p] = "refreshAccessToken" =>
                  /\ pc[p] = "done"
                  /\ result[p] = Returned(FALSE)
                  /\ sent[p] = <<>>
                  /\ recv[p] = <<>>
                  /\ store = entry[p]
            /\ op[p] = "authenticatedFetch" /\ Answered(p, 1, 401) =>
                  /\ pc[p] = "done"
                  /\ Count(p, "refresh") = 0
                  /\ store = entry[p]

\* C9's case: an access token stored without a refresh token, and
\* refreshAccessToken() called.
C9_Witness ==
    \E p \in Procs :
        /\ Done(p, "refreshAccessToken")
        /\ entry[p]["refresh_token"] = Null
        /\ Truthy(store["access_token"])

\* C10: AuthManager.logout(), once invoked, ends having returned its success
\* result with neither token stored, whatever becomes of its logout request:
\* answered 2xx, answered non-2xx, rejected, or never settled.
C10_LogoutAlwaysClears ==
    \A p \in Procs :
        (op[p] = "AuthManager.logout") ~>
            ( /\ Done(p, "AuthManager.logout")
              /\ result[p] = Returned(LogoutResult)
              /\ store = EmptyStore )

\* The tokens of the JSON body that invocation p's last promise settled to,
\* as setItem stores them.
PairOf(b) ==
    [k \in Keys |-> IF k = "access_token" THEN Str(JsString(b.access))
                                           ELSE Str(JsString(b.refresh))]

\* C11: a login writes its tokens in one step: every step of a login
\* invocation either leaves the store as it is, or is the step that ends the
\* login with success=true and leaves in the store both the access and the
\* refresh token of the login's body, so that no continuation of another
\* invocation, running between two steps, finds the new access token with the
\* old refresh token or none.
C11_LoginWritesPair ==
    [][\A p \in Procs :
          (op[p] = "AuthManager.login" /\ pc'[p] # pc[p] /\ store' # store) =>
              /\ pc[p] = "li_json"
              /\ pc'[p] = "done"
              /\ result'[p] = Returned([success |-> TRUE,
                                        message |-> "Login successful! Welcome back."])
              /\ store' = PairOf(recv'[p][Len(recv'[p])])]_vars

\* C11's case: a login replaced a stored pair by another pair (another access
\* token and another refresh token) while another invocation was waiting for
\* the network.
C11_Witness ==
    \E p \in Procs :
        /\ Done(p, "AuthManager.login")
        /\ result[p].val.success
        /\ entry[p] = [k \in Keys |-> IF k = "access_token" THEN Str("a1") ELSE Str("r1")]
        /\ store = [k \in Keys |-> IF k = "access_token" THEN Str("a2") ELSE Str("r2")]
        /\ \E q \in Procs \ {p} : pc[q] \in {"amr_fetch", "amr_json", "lo_fetch"}

\* The login of invocation p has failed: its fetch was rejected, it was
\* answered non-2xx, or the read of its body was rejected.
LoginFailed(p) ==
    /\ op[p] = "AuthManager.login"
    /\ \/ Rejected(p, 1)
       \/ Rejected(p, 2)
       \/ \E s \in Statuses : ~Ok(s) /\ Answered(p, 1, s)

\* C12: a login that fails (non-2xx answer, body that cannot be parsed,
\* rejected fetch) leaves both stored tokens as they were when it began, and
\* once it has ended its result has success=false.
C12_FailedLoginKeepsStore ==
    \A p \in Procs :
        LoginFailed(p) =>
            /\ store = entry[p]
            /\ pc[p] \in {"li_errjson", "done"}
            /\ pc[p] = "done" => result[p].val.success = FALSE

\* C12's case: a pair stored, and the login answered 401 with
\* {detail: "bad credentials"}.
C12_Witness ==
    \E p \in Procs :
        /\ Done(p, "AuthManager.login")
        /\ Answered(p, 1, 401)
        /\ Len(recv[p]) = 2
        /\ recv[p][2].kind = "json"
        /\ recv[p][2].detail = Str("bad credentials")
        /\ result[p] = Returned([success |-> FALSE,
                                 message |-> "Login failed: bad credentials"])
        /\ Truthy(store["access_token"])
        /\ Truthy(store["refresh_token"])

\* Invocation p is an expiry check, of either implementation.
IsExpiryCheck(p) == op[p] \in {"isTokenExpired", "AuthManager.isTokenExpired"}

\* The stored access token does not decode: it is one of the strings whose
\* middle segment is missing, is not base64, or is not JSON.
Undecodable(v) == Truthy(v) /\ ~DecodePayload(v.val).ok

\* C13: an expiry check begun with no access token stored, or with one whose
\* middle segment does not decode as base64 JSON (a string with no '.'
\* included), returns true (it does not throw) and leaves the store as it
\* was, in both implementations.
C13_ExpiredWhenAbsentOrUndecodable ==
    \A p \in Procs :
        /\ IsExpiryCheck(p)
        /\ \/ entry[p]["access_token"] = Null
           \/ Undecodable(entry[p]["access_token"])
        => /\ pc[p] = "done"
           /\ result[p] = Returned(TRUE)
           /\ store = entry[p]

\* C13's case: both implementations have checked a stored string with no
\* '.' in it.
C13_Witness ==
    \E p, q \in Procs :
        /\ Done(p, "isTokenExpired")
        /\ Done(q, "AuthManager.isTokenExpired")
        /\ store["access_token"] = Str(OpaqueToken)
        /\ entry[p] = store
        /\ entry[q] = store

\* C14: an expiry check of a stored token that decodes to claims with an
\* integer exp returns true exactly when exp * 1000 <= now, now being the
\* clock reading of the call, in both implementations.
C14_ExpiredExactlyAtOrAfterExp ==
    \A p \in Procs :
        /\ IsExpiryCheck(p)
        /\ pc[p] = "done"
        /\ entry[p]["access_token"].type = "string"
        /\ entry[p]["access_token"].val \in AccessTokens
        => ( result[p] = Returned(TRUE)
               <=> ExpOf(entry[p]["access_token"].val) * 1000 <= recv[p][1].now )

TransportThrew(p) == \E k \in 1..Len(recv[p]) : recv[p][k].kind = "reject"

\* C16: when a network call of authenticatedFetch, of a refresh, of a login
\* or of a logout throws, the operation ends with a returned value or with
\* one of its own errors (no token, authentication failed); the transport's
\* exception is never what the caller gets.
C16_NoTransportExceptionEscapes ==
    \A p \in Procs :
        /\ op[p] \in {"authenticatedFetch", "refreshAccessToken", "AuthManager.checkAuthStatus",
                      "AuthManager.login", "AuthManager.logout"}
        /\ pc[p] = "done"
        /\ TransportThrew(p)
        => \/ result[p].kind = "return"
           \/ result[p] \in {Threw(NoTokenMsg), Threw(AuthFailedMsg)}

\* C17: the stored tokens change only by a successful login, a refresh, a
\* logout, a 401 that could not be recovered from, or the finding of an
\* access token that does not decode; so an auth-status check whose request
\* is answered with a non-401 error status, or is rejected, ends with both
\* tokens as they were.
C17_StoreChangesOnlyByLifecycle ==
    \A p \in Procs :
        pc[p] = "done" /\ store # entry[p] =>
            \/ op[p] \in {"AuthManager.login", "refreshAccessToken",
                          "AuthManager.checkAuthStatus", "AuthManager.logout",
                          "FeedbackManagement.logout", "logout"}
            \/ Answered(p, 1, 401)
            \/ Undecodable(entry[p]["access_token"])

\* Invocation p is one of the logout functions.
IsLogout(p) == op[p] \in {"AuthManager.logout", "FeedbackManagement.logout", "logout"}

\* C18: every logout function, once it has run, leaves neither the access
\* token nor the refresh token stored.
C18_LogoutClearsBoth ==
    \A p \in Procs :
        IsLogout(p) /\ pc[p] = "done" => store = EmptyStore

\* C19: a check that finds the stored access token not to decode (an expiry
\* check, or AuthManager.checkAuthStatus()) ends with both tokens cleared:
\* such an access token is never still stored once the check has ended.
C19_UndecodableTokenCleared ==
    \A p \in Procs :
        /\ IsExpiryCheck(p) \/ op[p] = "AuthManager.checkAuthStatus"
        /\ pc[p] = "done"
        /\ Undecodable(entry[p]["access_token"])
        => store = EmptyStore

\* The Authorization headers page code passes of its own.
CallerAuthorizations ==
    {HeadersOf(o)["Authorization"] :
        o \in {c \in CallerOptions : "Authorization" \in DOMAIN HeadersOf(c)}}

\* C20: every resource request of authenticatedFetch, the retry included,
\* carries "Bearer T" with T a token the backend issued (never the text
\* "null" or "undefined"), however refreshes, logouts and other
\* authenticatedFetch calls interleave with it; a first request whose
\* Authorization the caller passed itself is left aside.
C20_RequestsCarryStoredToken ==
    \A p \in Procs :
        op[p] = "authenticatedFetch" =>
            \A k \in 1..Len(sent[p]) :
                sent[p][k].url = "resource" =>
                    \/ AuthorizationOf(p, k) \in {"Bearer " \o t : t \in AccessTokens}
                    \/ k = 1 /\ AuthorizationOf(p, k) \in CallerAuthorizations

\* C21: with several authenticatedFetch calls in flight, each going through
\* 401, refresh and retry, the retry of a call carries the access token of
\* the body that call's own refresh received, whatever the other calls'
\* refreshes wrote before or after.
C21_RetryCarriesOwnRefresh ==
    \A p \in Procs :
        RefreshedAfter401(p) =>
            /\ Len(sent[p]) = 3
            /\ sent[p][3].url = "resource"
            /\ AuthorizationOf(p, 3) = "Bearer " \o recv[p][3].access.val

\* C21's case: two calls whose refreshes received different tokens, both
\* waiting for their retries, the store holding the token of one of them.
C21_Witness ==
    \E p, q \in Procs :
        /\ RefreshedAfter401(p) /\ pc[p] = "af_fetch2"
        /\ RefreshedAfter401(q) /\ pc[q] = "af_fetch2"
        /\ AuthorizationOf(p, 3) = "Bearer a1"
        /\ AuthorizationOf(q, 3) = "Bearer a2"
        /\ store["access_token"] = Str("a2")

\* C22: when a page function's authenticatedFetch has ended in the
\* authentication-failed error, the function's handling of it schedules the
\* redirect to the login page.
C22_AuthFailedSchedulesRedirect ==
    [][\A p \in Procs :
          (/\ pc[p] = "done"
           /\ op[p] \in CallerOps
           /\ result[p] = Threw(AuthFailedMsg)
           /\ pc'[p] # pc[p]) => pc'[p] = "sm_timer"]_vars

\* C23: the headers of authenticatedFetch's first request have exactly the
\* keys of the defaults (Authorization: Bearer <stored token>, Content-Type:
\* application/json) and of the caller's headers; a key the caller supplied
\* has the caller's value, every other key its default.
C23_CallerHeadersOverrideDefaults ==
    [][\A p \in Procs : \A options \in CallerOptions :
          AF_CallWith(p, options) /\ Len(sent'[p]) = 1 =>
              LET headers == sent'[p][1].opts["headers"]
                  caller == HeadersOf(options)
              IN  /\ DOMAIN headers = {"Authorization", "Content-Type"} \cup DOMAIN caller
                  /\ \A k \in DOMAIN caller : headers[k] = caller[k]
                  /\ "Authorization" \notin DOMAIN caller =>
                        headers["Authorization"] = "Bearer " \o store["access_token"].val
                  /\ "Content-Type" \notin DOMAIN caller =>
                        headers["Content-Type"] = "application/json"]_vars

\* C23's case: the caller passed its own Authorization and an extra header;
\* the request has both of them and the default Content-Type.
C23_Witness ==
    \E p \in Procs :
        /\ op[p] = "authenticatedFetch"
        /\ Len(sent[p]) >= 1
        /\ sent[p][1].opts["headers"] =
              ("Authorization" :> "Token caller") @@ ("X-Trace" :> "1") @@
              ("Content-Type" :> "application/json")

\* C25: authenticatedFetch's retry has the first request's URL, method, body
\* and headers, except that its Authorization header is "Bearer " followed
\* by the refreshed token, whatever Authorization the first request carried.
C25_RetryRepeatsFirstRequest ==
    \A p \in Procs :
        RefreshedAfter401(p) =>
            LET first == sent[p][1]
                retry == sent[p][3]
            IN  /\ retry.url = first.url
                /\ DOMAIN retry.opts = DOMAIN first.opts
                /\ \A k \in DOMAIN first.opts \ {"headers"} :
                      retry.opts[k] = first.opts[k]
                /\ DOMAIN retry.opts["headers"] = DOMAIN first.opts["headers"]
                /\ \A h \in DOMAIN first.opts["headers"] \ {"Authorization"} :
                      retry.opts["headers"][h] = first.opts["headers"][h]
                /\ retry.opts["headers"]["Authorization"] =
                      "Bearer " \o recv[p][3].access.val

\* C25's case: a PUT whose caller passed its own Authorization and an extra
\* header got 401, then a new token, and was sent again.
C25_Witness ==
    \E p \in Procs :
        /\ RefreshedAfter401(p)
        /\ AuthorizationOf(p, 1) = "Token caller"
        /\ sent[p][1].opts["method"] = "PUT"
        /\ sent[p][3].opts["headers"]["X-Trace"] = "1"
        /\ AuthorizationOf(p, 3) \in {"Bearer " \o a : a \in AccessTokens}

\* The program counters at which an invocation awaits the fetch of a token
\* refresh.
RefreshFetchPcs == {"rt_fetch", "amr_fetch", "sc_fetch", "ad_fetch", "nb_refresh", "ch_refresh"}

\* C24: in every refresh implementation, when the fetch of the refresh call
\* is rejected (a network-level failure), the step that handles the
\* rejection leaves both stored tokens as they were.
C24_RefreshNetworkFailureKeepsTokens ==
    [][\A p \in Procs :
          (/\ pc[p] \in RefreshFetchPcs
           /\ Len(recv'[p]) = Len(recv[p]) + 1
           /\ recv'[p][Len(recv'[p])].kind = "reject") => store' = store]_vars

\* A logout has run to its end.
LoggedOut == \E q \in Procs : IsLogout(q) /\ pc[q] = "done"

\* C26: after a logout has cleared the store, and while no access token is
\* stored, the only step that stores one is a login's: a refresh that was in
\* flight when the logout ran does not write its token.
C26_NoTokenAfterLogoutButByLogin ==
    [][(/\ LoggedOut
        /\ ~Truthy(store["access_token"])
        /\ Truthy(store'["access_token"]))
       => \E p \in Procs : pc[p] = "li_json" /\ pc'[p] = "done"]_vars

\* C27: an access token is stored only if a refresh token is stored too.
C27_AccessOnlyWithRefresh ==
    Truthy(store["access_token"]) => Truthy(store["refresh_token"])

\* C28: one NavbarManager.checkAuthStatus() sends at most one refresh request
\* and at most two verify requests.
C28_NavbarChecksAreBounded ==
    \A p \in Procs :
        op[p] = "NavbarManager.checkAuthStatus" =>
            /\ Issued(p, "refresh") <= 1
            /\ Issued(p, "verify") <= 2

\* The refresh call of AuthManager.checkAuthStatus invocation p succeeded: a
\* 2xx answer whose body was read.
AM_RefreshSucceeded(p) ==
    /\ AnsweredOk(p, 1)
    /\ Len(recv[p]) >= 2
    /\ recv[p][2].kind = "json"

StandaloneRefreshOps ==
    {"refreshAccessToken", "AuthManager.checkAuthStatus",
     "script.refreshAccessToken", "AdminDashboard.refreshAccessToken"}

\* Invocation p's refresh function returned b.
StandaloneRefreshReturned(p, b) ==
    IF op[p] = "AuthManager.checkAuthStatus"
    THEN result[p] = Returned([isAuthenticated |-> b, needsRefresh |-> ~b])
    ELSE result[p] = Returned(b)

\* What auth-utils.js refreshAccessToken() makes of the store st when its
\* network promises settle to rs: the boolean it returns and the store it
\* leaves.
RefreshOutcome(st, rs) ==
    IF rs[1].kind = "reject"
    THEN [ok |-> FALSE, store |-> st]
    ELSE IF ~Ok(rs[1].status)
    THEN [ok |-> FALSE, store |-> RemoveItem(RemoveItem(st, "access_token"), "refresh_token")]
    ELSE IF rs[2].kind = "reject"
    THEN [ok |-> FALSE, store |-> st]
    ELSE [ok |-> TRUE, store |-> SetItem(st, "access_token", rs[2].access)]

\* C30: each of the four refresh functions, called with a refresh token
\* stored, returns the boolean and leaves the store that the same store and
\* the same outcome of the refresh endpoint give in auth-utils.js; so the four
\* agree with one another.
C30_RefreshImplementationsAgree ==
    \A p \in Procs :
        /\ op[p] \in StandaloneRefreshOps
        /\ pc[p] = "done"
        /\ Truthy(entry[p]["refresh_token"])
        /\ Len(recv[p]) >= 1
        => LET out == RefreshOutcome(entry[p], recv[p])
           IN  /\ StandaloneRefreshReturned(p, out.ok)
               /\ store = out.store

\* C30's case: AdminDashboard's refresh got a non-2xx answer with both tokens
\* stored; it returned false and removed both, as auth-utils.js would.
C30_Witness ==
    \E p \in Procs :
        /\ Done(p, "AdminDashboard.refreshAccessToken")
        /\ Truthy(entry[p]["access_token"])
        /\ Truthy(entry[p]["refresh_token"])
        /\ Answered(p, 1, 401)
        /\ result[p] = Returned(FALSE)
        /\ store = EmptyStore

====
